---- MODULE Spec2Model ----
(***************************************************************************)
(* A model of host_list.py: the script that lists the hosts attached to a  *)
(* leaf switch pair.  It filters the leaf's MAC address table, splits the  *)
(* entries into locally routed and remotely routed ones, resolves each MAC *)
(* to IP addresses through the leaf's ARP table or the routers' per-VLAN    *)
(* ARP tables, and writes two reports.                                     *)
(*                                                                         *)
(* Text that the script inspects character by character (interface names,  *)
(* entry types, VLAN keys) is a sequence of one-character strings.  A MAC   *)
(* address in the colon-delimited form is the sequence of its six groups;  *)
(* in the dotted form it is a string.  An IPv4 address is the sequence of  *)
(* its four octets.  A Python dict is a sequence of [key, val] records in   *)
(* insertion order.                                                        *)
(***************************************************************************)
EXTENDS Integers, Sequences, FiniteSets, TLC

VARIABLES
    \* device snapshots and the resolver, frozen for the life of the model
    show_macs,        \* tableEntries of 'show mac address-table'
    interfaces,       \* 'show ip interface': dict name -> lineProtocolStatus
    show_vlans,       \* 'show vlan brief': the keys of its 'vlans' dict
    leaf_arp,         \* 'show arp' on the leaf: ipV4Neighbors
    router_resp,      \* VLAN key -> what the router's 'show arp' gives
    dns,              \* IP -> name, or NoName when gethostbyaddr raises, or
                      \* NotAsked while the resolver's answer is not known
    \* the script's variables
    macadds, vlan_ints, leaf_vlans, local_vlans, router_vlans,
    local_macs, routed_macs, arp_dict, router_arp_dict,
    ip_addrs, sorted_ips,
    pc,               \* the statement the script is at
    idx,              \* position of the running for loop
    \* the outside world
    noip_file,        \* lines of {hostname}-noip.txt
    ip_file,          \* lines of {hostname}-ip.txt
    queried,          \* VLANs of the commands sent to the router, this run
    run,              \* which invocation of the script this is
    noip_start,       \* length of the noip file when this run started
    ip_start          \* length of the ip file when this run started

devices == <<show_macs, interfaces, show_vlans, leaf_arp, router_resp>>
inputs == <<show_macs, interfaces, show_vlans, leaf_arp, router_resp, dns>>
derived == <<macadds, vlan_ints, leaf_vlans, local_vlans, router_vlans,
             local_macs, routed_macs, arp_dict>>
vars == <<show_macs, interfaces, show_vlans, leaf_arp, router_resp, dns,
          macadds, vlan_ints, leaf_vlans, local_vlans, router_vlans,
          local_macs, routed_macs, arp_dict, router_arp_dict,
          ip_addrs, sorted_ips, pc, idx, noip_file, ip_file, queried,
          run, noip_start, ip_start>>

----------------------------------------------------------------------------
(* Bounds of the model *)

MaxEntries == 2      \* rows of the MAC address table
MaxRuns == 2         \* invocations of the script

----------------------------------------------------------------------------
(* Sequences and dicts *)

Range(s) == { s[j] : j \in 1..Len(s) }

\* x in s, for a list s
Member(x, s) == \E j \in 1..Len(s) : s[j] = x

SeqsUpTo(S, n) == UNION { [1..k -> S] : k \in 0..n }

DictKeys(d) == [j \in 1..Len(d) |-> d[j].key]
DictValues(d) == { d[j].val : j \in 1..Len(d) }
HasKey(d, k) == \E j \in 1..Len(d) : d[j].key = k
DictGet(d, k) == (CHOOSE j \in 1..Len(d) : d[j].key = k)
Lookup(d, k) == d[DictGet(d, k)].val

\* d[k] = v: a new key goes last, a known key keeps its place
DictSet(d, k, v) ==
    IF HasKey(d, k)
    THEN [j \in 1..Len(d) |-> IF d[j].key = k THEN [key |-> k, val |-> v] ELSE d[j]]
    ELSE Append(d, [key |-> k, val |-> v])

\* {p.key: p.val for p in pairs}
RECURSIVE DictOf(_, _)
DictOf(d, pairs) ==
    IF pairs = <<>> THEN d
    ELSE DictOf(DictSet(d, Head(pairs).key, Head(pairs).val), Tail(pairs))

----------------------------------------------------------------------------
(* Text *)

DigitChars == <<"0", "1", "2", "3", "4", "5", "6", "7", "8", "9">>
IsDigit(c) == Member(c, DigitChars)

\* str(n) for n >= 0
RECURSIVE Str(_)
Str(n) == IF n < 10 THEN <<DigitChars[n + 1]>>
          ELSE Str(n \div 10) \o <<DigitChars[(n % 10) + 1]>>

\* whether the text sub occurs in s
Contains(s, sub) ==
    \E j \in 1..(Len(s) - Len(sub) + 1) : SubSeq(s, j, j + Len(sub) - 1) = sub

\* the lookbehind (?<!409(3|4)) at the end of s: the four characters before
\* the end are neither 4093 nor 4094
NotPeerVlanBehind(s) ==
    ~ ( Len(s) >= 4
        /\ SubSeq(s, Len(s) - 3, Len(s)) \in { <<"4","0","9","3">>, <<"4","0","9","4">> } )

AllDigits(s) == \A j \in 1..Len(s) : IsDigit(s[j])

VlanPrefix == <<"V", "l", "a", "n">>

----------------------------------------------------------------------------
(* The values the model's snapshots are drawn from *)

MacA == <<"aa", "bb", "cc", "00", "11", "22">>
MacB == <<"aa", "bb", "cc", "00", "11", "33">>
HwA == "aabb.cc00.1122"
HwB == "aabb.cc00.1133"

Et1 == <<"E", "t", "1">>
Vx1 == <<"V", "x", "1">>
Router == <<"R", "o", "u", "t", "e", "r">>
Lo0 == <<"L", "o", "0">>
dynamic == <<"d", "y", "n", "a", "m", "i", "c">>
static == <<"s", "t", "a", "t", "i", "c">>

Ip2 == <<10, 0, 0, 2>>
Ip10 == <<10, 0, 0, 10>>
Ips == {Ip2, Ip10}

NoName == "NXDOMAIN"
NotAsked == "not asked yet"
\* what run_commands gives for a command: the 'vrfs' of its result, or an
\* exception (pyeapi's CommandError or ConnectionError)
Answer(vrfs) == [raises |-> FALSE, vrfs |-> vrfs]
RouterFails == [raises |-> TRUE, vrfs |-> <<>>]

----------------------------------------------------------------------------
(* The script's expressions *)

\* the filter without its test of the entry type
KeepMacStaticKept(macs) ==
    /\ ~ Contains(macs.interface, <<"V", "x">>)
    /\ ~ Contains(macs.interface, <<"R", "o">>)

\* lines 71-72: the two regular expressions of the address-table filter
KeepMac(macs) ==
    /\ ~ Contains(macs.interface, <<"V", "x">>)
    /\ ~ Contains(macs.interface, <<"R", "o">>)
    /\ ~ Contains(macs.entryType, <<"s", "t">>)

\* lines 67-73
MacAdds(table) == SelectSeq(table, KeepMac)

\* line 81: ^Vlan\d{1,4}(?<!409(3|4))$
IsVlanInt(name) ==
    /\ Len(name) \in 5..8
    /\ SubSeq(name, 1, 4) = VlanPrefix
    /\ AllDigits(SubSeq(name, 5, Len(name)))
    /\ NotPeerVlanBehind(name)

\* lines 78-83
VlanInts(ifs) ==
    DictKeys(SelectSeq(ifs, LAMBDA e : IsVlanInt(e.key) /\ e.val = "up"))

\* line 92: ^(?!1$)\d{1,4}(?<!409(3|4))$
IsLeafVlan(vlan) ==
    /\ vlan # <<"1">>
    /\ Len(vlan) \in 1..4
    /\ AllDigits(vlan)
    /\ NotPeerVlanBehind(vlan)

\* lines 88-93
LeafVlans(vlans) == SelectSeq(vlans, IsLeafVlan)

\* f'Vlan{vlan}' and 'Vlan' + str(vlanId)
VlanName(vlan) == VlanPrefix \o vlan

\* lines 96-102
LocalVlans(lv, vi) == SelectSeq(lv, LAMBDA vlan : Member(VlanName(vlan), vi))

\* every VLAN of leaf_vlans, the locally routed ones too
RouterVlansAll(lv, vi) == lv

\* lines 104-110
RouterVlans(lv, vi) == SelectSeq(lv, LAMBDA vlan : ~ Member(VlanName(vlan), vi))

\* lines 116, 127: '{}{}.{}{}.{}{}'.format(*mac.split(':'))
FormatMac(g) == g[1] \o g[2] \o "." \o g[3] \o g[4] \o "." \o g[5] \o g[6]

\* lines 122-123
IsLocalMac(mac, vi) == Member(VlanName(Str(mac.vlanId)), vi)

\* the test of local_macs copied without its 'not'
IsRoutedMacCopied(mac, vi) == Member(VlanName(Str(mac.vlanId)), vi)

\* lines 133-134
IsRoutedMac(mac, vi) == ~ Member(VlanName(Str(mac.vlanId)), vi)

MacItems(entries) ==
    [j \in 1..Len(entries) |->
        [key |-> FormatMac(entries[j].macAddress),
         val |-> [interface |-> entries[j].interface, vlanId |-> entries[j].vlanId]]]

\* lines 115-124
LocalMacs(ma, vi) ==
    DictOf(<<>>, MacItems(SelectSeq(ma, LAMBDA mac : IsLocalMac(mac, vi))))

\* lines 126-135
RoutedMacs(ma, vi) ==
    DictOf(<<>>, MacItems(SelectSeq(ma, LAMBDA mac : IsRoutedMac(mac, vi))))

NeighborItems(rows) ==
    [j \in 1..Len(rows) |-> [key |-> rows[j].address, val |-> rows[j].hwAddress]]

\* lines 139-144
ArpDict(rows) == DictOf(<<>>, NeighborItems(rows))

\* the comprehension comparing the key, not the value, with the MAC
IpsOfByKey(d, mac) == DictKeys(SelectSeq(d, LAMBDA e : e.key = mac))

\* lines 156, 179: [key for key, value in d.items() if value == mac]
IpsOf(d, mac) == DictKeys(SelectSeq(d, LAMBDA e : e.val = mac))

\* lines 153-154, 176-177: the line written for a MAC with no ARP entry
NoIpLine(mac, rec) == [mac |-> mac, vlanId |-> rec.vlanId, interface |-> rec.interface]

\* a write that skips a line the file already holds
WriteLineOnce(file, line) == IF line \in Range(file) THEN file ELSE Append(file, line)

\* lines 152, 175, 186: a file opened in mode 'a' and written to
WriteLine(file, line) == Append(file, line)

\* lines 164-167: the rows of the VRFs that report dynamic entries
RECURSIVE DynamicRows(_)
DynamicRows(vrfs) ==
    IF vrfs = <<>> THEN <<>>
    ELSE (IF Head(vrfs).dynamicEntries > 0 THEN Head(vrfs).ipV4Neighbors ELSE <<>>)
         \o DynamicRows(Tail(vrfs))

\* ipaddress.IPv4Address(ip) as the sort key of line 184
IPv4Key(ip) == ((ip[1] * 256 + ip[2]) * 256 + ip[3]) * 256 + ip[4]

\* x goes after the elements whose key is not larger: the sort is stable
RECURSIVE InsertByKey(_, _)
InsertByKey(x, s) ==
    IF s = <<>> THEN <<x>>
    ELSE IF IPv4Key(Head(s)) <= IPv4Key(x)
         THEN <<Head(s)>> \o InsertByKey(x, Tail(s))
         ELSE <<x>> \o s

\* the characters of an address as numbers, the dot below every digit
RECURSIVE DigitCodes(_)
DigitCodes(n) == IF n < 10 THEN <<n>> ELSE DigitCodes(n \div 10) \o <<n % 10>>

IpText(ip) ==
    DigitCodes(ip[1]) \o <<-1>> \o DigitCodes(ip[2]) \o <<-1>>
    \o DigitCodes(ip[3]) \o <<-1>> \o DigitCodes(ip[4])

RECURSIVE TextLeq(_, _)
TextLeq(a, b) ==
    IF a = <<>> THEN TRUE
    ELSE IF b = <<>> THEN FALSE
    ELSE IF Head(a) # Head(b) THEN Head(a) < Head(b)
    ELSE TextLeq(Tail(a), Tail(b))

RECURSIVE InsertByText(_, _)
InsertByText(x, s) ==
    IF s = <<>> THEN <<x>>
    ELSE IF TextLeq(IpText(Head(s)), IpText(x))
         THEN <<Head(s)>> \o InsertByText(x, Tail(s))
         ELSE <<x>> \o s

\* sorted(ip_addrs) with no key: the addresses compared as text
RECURSIVE SortedAsText(_)
SortedAsText(s) ==
    IF s = <<>> THEN <<>>
    ELSE InsertByText(s[Len(s)], SortedAsText(SubSeq(s, 1, Len(s) - 1)))

\* line 184: sorted(ip_addrs, key=ipaddress.IPv4Address)
RECURSIVE Sorted(_)
Sorted(s) ==
    IF s = <<>> THEN <<>>
    ELSE InsertByKey(s[Len(s)], Sorted(SubSeq(s, 1, Len(s) - 1)))

\* lines 188-191: the line written for an address
IpLine(ip, answer) ==
    IF answer # NoName
    THEN [ip |-> ip, named |-> TRUE, name |-> answer]
    ELSE [ip |-> ip, named |-> FALSE, name |-> "does not resolve in DNS"]

----------------------------------------------------------------------------
(* The snapshots the model starts from *)

Entry(mac, vlan, intf, type) ==
    [macAddress |-> mac, vlanId |-> vlan, interface |-> intf, entryType |-> type]

Neighbor(ip, hw) == [address |-> ip, hwAddress |-> hw]

Vrf(name, n, rows) == [vrf |-> name, dynamicEntries |-> n, ipV4Neighbors |-> rows]

\* VLAN 1 and the peering VLAN 4094 always exist; 10 and 20 may be configured.
\* Every VLAN has an SVI, up or down; the SVI of a VLAN that is not
\* configured is down.  The peering SVI and the loopback are up.
Topologies ==
    { [vlans |-> <<Str(1)>> \o (IF in10 THEN <<Str(10)>> ELSE <<>>)
                 \o (IF in20 THEN <<Str(20)>> ELSE <<>>) \o <<Str(4094)>>,
       interfaces |-> << [key |-> VlanName(Str(1)), val |-> s1],
                         [key |-> Lo0, val |-> "up"],
                         [key |-> VlanName(Str(10)), val |-> s10],
                         [key |-> VlanName(Str(20)), val |-> s20],
                         [key |-> VlanName(Str(4094)), val |-> "up"] >>] :
      in10 \in BOOLEAN, in20 \in BOOLEAN,
      s1 \in {"up", "down"}, s10 \in {"up", "down"}, s20 \in {"up", "down"} }

RealTopologies ==
    { t \in Topologies :
        \A e \in Range(t.interfaces) :
            (e.val = "up" /\ e.key # Lo0)
                => \E v \in Range(t.vlans) : VlanName(v) = e.key }

\* the VLANs the script can ask the router about
RouterKeys == {Str(10), Str(20)}

\* an ARP table holds an address once
DistinctAddresses(rows) ==
    \A j, k \in 1..Len(rows) : rows[j].address = rows[k].address => j = k

\* rows of every kind: end hosts on each VLAN, and the rows the filter is to
\* drop (learned over VXLAN, the router's virtual MAC, a static entry)
AllEntries ==
    { Entry(m, v, Et1, dynamic) : m \in {MacA, MacB}, v \in {1, 10, 20, 4094} }
    \cup { Entry(MacA, 10, Vx1, dynamic), Entry(MacA, 10, Router, static),
           Entry(MacA, 10, Et1, static) }

HostEntries ==
    { Entry(MacA, 10, Et1, dynamic), Entry(MacA, 20, Et1, dynamic),
      Entry(MacB, 10, Et1, dynamic) }

LeafArps ==
    { rows \in SeqsUpTo({ Neighbor(ip, hw) : ip \in Ips, hw \in {HwA, HwB} }, 2) :
        DistinctAddresses(rows) }

RouterAnswers ==
    { RouterFails,
      Answer(<<>>),
      Answer(<< Vrf("prod", 1, <<Neighbor(Ip2, HwA)>>) >>),
      Answer(<< Vrf("mgmt", 0, <<Neighbor(Ip2, HwB)>>),
                Vrf("prod", 1, <<Neighbor(Ip10, HwA)>>) >>),
      Answer(<< Vrf("prod", 2, <<Neighbor(Ip10, HwB), Neighbor(Ip2, HwB)>>) >>) }

\* what socket.gethostbyaddr can do for an address
ResolverAnswers == {"host.example.com", NoName}

\* the router's answers for the VLANs of topology t, drawn from answers: the
\* answer for a VLAN the script does not ask about is left empty
RouterSnapshots(t, answers) ==
    { r \in [RouterKeys -> answers \cup {Answer(<<>>)}] :
        \A v \in RouterKeys :
            v \notin Range(RouterVlans(LeafVlans(t.vlans), VlanInts(t.interfaces)))
                => r[v] = Answer(<<>>) }

\* Many kinds of address-table rows and VLAN topologies, one ARP picture, a
\* router that answers
InitTables ==
    /\ show_macs \in SeqsUpTo(AllEntries, MaxEntries)
    /\ \E t \in RealTopologies :
          /\ show_vlans = t.vlans /\ interfaces = t.interfaces
          /\ router_resp \in
                RouterSnapshots(t, {Answer(<< Vrf("prod", 1, <<Neighbor(Ip10, HwA)>>) >>)})
    /\ leaf_arp = <<Neighbor(Ip2, HwA)>>
    /\ dns = [ip \in Ips |-> IF ip = Ip2 THEN "host.example.com" ELSE NoName]

\* Many ARP pictures, end hosts on VLANs 10 and 20 only
InitArps ==
    /\ show_macs \in SeqsUpTo(HostEntries, MaxEntries)
    /\ \E t \in RealTopologies :
          /\ Str(10) \in Range(t.vlans) /\ Str(20) \in Range(t.vlans)
          /\ VlanName(Str(1)) \notin Range(VlanInts(t.interfaces))
          /\ show_vlans = t.vlans /\ interfaces = t.interfaces
          /\ router_resp \in RouterSnapshots(t, RouterAnswers)
    /\ leaf_arp \in LeafArps
    /\ dns = [ip \in Ips |-> NotAsked]

Init ==
    /\ InitTables \/ InitArps
    /\ macadds = <<>> /\ vlan_ints = <<>> /\ leaf_vlans = <<>>
    /\ local_vlans = <<>> /\ router_vlans = <<>>
    /\ local_macs = <<>> /\ routed_macs = <<>> /\ arp_dict = <<>>
    /\ router_arp_dict = <<>> /\ ip_addrs = <<>> /\ sorted_ips = <<>>
    /\ pc = "start" /\ idx = 1
    /\ noip_file = <<>> /\ ip_file = <<>> /\ queried = <<>>
    /\ run = 1 /\ noip_start = 0 /\ ip_start = 0

----------------------------------------------------------------------------
(* The script's steps *)

\* lines 151, 156: the dict the loop over local_macs looks the MAC up in
LocalIndex == arp_dict

\* the loop over routed_macs still reading the leaf's dict
RoutedIndexLeaf == arp_dict

\* lines 174, 179: the dict the loop over routed_macs looks the MAC up in
RoutedIndex == router_arp_dict

\* lines 55-144: the leaf's tables are read and classified
Classify ==
    /\ pc = "start"
    /\ ip_addrs' = <<>>
    /\ router_arp_dict' = <<>>
    /\ macadds' = MacAdds(show_macs)
    /\ vlan_ints' = VlanInts(interfaces)
    /\ leaf_vlans' = LeafVlans(show_vlans)
    /\ local_vlans' = LocalVlans(leaf_vlans', vlan_ints')
    /\ router_vlans' = RouterVlans(leaf_vlans', vlan_ints')
    /\ local_macs' = LocalMacs(macadds', vlan_ints')
    /\ routed_macs' = RoutedMacs(macadds', vlan_ints')
    /\ arp_dict' = ArpDict(leaf_arp)
    /\ pc' = "local" /\ idx' = 1
    /\ UNCHANGED <<inputs, sorted_ips, noip_file, ip_file, queried, run,
                   noip_start, ip_start>>

\* lines 150-157: one turn of the loop over local_macs
LocalStep ==
    /\ pc = "local" /\ idx <= Len(local_macs)
    /\ LET mac == local_macs[idx].key IN
         IF mac \notin DictValues(LocalIndex)
         THEN /\ noip_file' = WriteLine(noip_file, NoIpLine(mac, local_macs[idx].val))
              /\ UNCHANGED ip_addrs
         ELSE /\ ip_addrs' = ip_addrs \o IpsOf(LocalIndex, mac)
              /\ UNCHANGED noip_file
    /\ idx' = idx + 1
    /\ UNCHANGED <<inputs, derived, router_arp_dict, sorted_ips, pc, ip_file,
                   queried, run, noip_start, ip_start>>

LocalExit ==
    /\ pc = "local" /\ idx > Len(local_macs)
    /\ pc' = "router" /\ idx' = 1
    /\ UNCHANGED <<inputs, derived, router_arp_dict, ip_addrs, sorted_ips,
                   noip_file, ip_file, queried, run, noip_start, ip_start>>

\* lines 162-167: one turn of the loop over router_vlans, the command answered
RouterQuery ==
    /\ pc = "router" /\ idx <= Len(router_vlans)
    /\ ~ router_resp[router_vlans[idx]].raises
    /\ queried' = Append(queried, router_vlans[idx])
    /\ router_arp_dict' =
          DictOf(router_arp_dict,
                 NeighborItems(DynamicRows(router_resp[router_vlans[idx]].vrfs)))
    /\ idx' = idx + 1
    /\ UNCHANGED <<inputs, derived, ip_addrs, sorted_ips, pc, noip_file, ip_file,
                   run, noip_start, ip_start>>

\* line 163: run_commands raises, nothing catches it, the script ends
RouterQueryFails ==
    /\ pc = "router" /\ idx <= Len(router_vlans)
    /\ router_resp[router_vlans[idx]].raises
    /\ queried' = Append(queried, router_vlans[idx])
    /\ pc' = "crashed"
    /\ UNCHANGED <<inputs, derived, router_arp_dict, ip_addrs, sorted_ips, idx,
                   noip_file, ip_file, run, noip_start, ip_start>>

RouterExit ==
    /\ pc = "router" /\ idx > Len(router_vlans)
    /\ pc' = "routed" /\ idx' = 1
    /\ UNCHANGED <<inputs, derived, router_arp_dict, ip_addrs, sorted_ips,
                   noip_file, ip_file, queried, run, noip_start, ip_start>>

\* lines 173-180: one turn of the loop over routed_macs
RoutedStep ==
    /\ pc = "routed" /\ idx <= Len(routed_macs)
    /\ LET mac == routed_macs[idx].key IN
         IF mac \notin DictValues(RoutedIndex)
         THEN /\ noip_file' = WriteLine(noip_file, NoIpLine(mac, routed_macs[idx].val))
              /\ UNCHANGED ip_addrs
         ELSE /\ ip_addrs' = ip_addrs \o IpsOf(RoutedIndex, mac)
              /\ UNCHANGED noip_file
    /\ idx' = idx + 1
    /\ UNCHANGED <<inputs, derived, router_arp_dict, sorted_ips, pc, ip_file,
                   queried, run, noip_start, ip_start>>

\* line 184
SortIps ==
    /\ pc = "routed" /\ idx > Len(routed_macs)
    /\ sorted_ips' = Sorted(ip_addrs)
    /\ pc' = "report" /\ idx' = 1
    /\ UNCHANGED <<inputs, derived, router_arp_dict, ip_addrs, noip_file, ip_file,
                   queried, run, noip_start, ip_start>>

\* lines 187-191: one turn of the loop over sorted_ips.  The resolver is
\* deterministic: the answer it gives for an address the first time is the
\* answer it gives for that address from then on.
ReportStep ==
    /\ pc = "report" /\ idx <= Len(sorted_ips)
    /\ \E answer \in ResolverAnswers :
          /\ dns[sorted_ips[idx]] \in {NotAsked, answer}
          /\ dns' = [dns EXCEPT ![sorted_ips[idx]] = answer]
          /\ ip_file' = WriteLine(ip_file, IpLine(sorted_ips[idx], answer))
    /\ idx' = idx + 1
    /\ UNCHANGED <<devices, derived, router_arp_dict, ip_addrs, sorted_ips, pc,
                   noip_file, queried, run, noip_start, ip_start>>

ReportExit ==
    /\ pc = "report" /\ idx > Len(sorted_ips)
    /\ pc' = "done"
    /\ UNCHANGED <<inputs, derived, router_arp_dict, ip_addrs, sorted_ips, idx,
                   noip_file, ip_file, queried, run, noip_start, ip_start>>

Ended == pc \in {"done", "crashed"}

\* the script is started again against the same snapshots; the two files
\* are still there (lines 152, 175, 186 open them in append mode)
Rerun ==
    /\ Ended /\ run < MaxRuns
    /\ run' = run + 1
    /\ noip_start' = Len(noip_file) /\ ip_start' = Len(ip_file)
    /\ macadds' = <<>> /\ vlan_ints' = <<>> /\ leaf_vlans' = <<>>
    /\ local_vlans' = <<>> /\ router_vlans' = <<>>
    /\ local_macs' = <<>> /\ routed_macs' = <<>> /\ arp_dict' = <<>>
    /\ router_arp_dict' = <<>> /\ ip_addrs' = <<>> /\ sorted_ips' = <<>>
    /\ pc' = "start" /\ idx' = 1 /\ queried' = <<>>
    /\ UNCHANGED <<inputs, noip_file, ip_file>>

Next ==
    \/ Classify
    \/ LocalStep
    \/ LocalExit
    \/ RouterQuery
    \/ RouterQueryFails
    \/ RouterExit
    \/ RoutedStep
    \/ SortIps
    \/ ReportStep
    \/ ReportExit
    \/ Rerun

Spec == Init /\ [][Next]_vars

----------------------------------------------------------------------------
(* What the properties below speak of *)

Classified == pc # "start"

\* the lines this run has appended to each file
NoipEmitted == SubSeq(noip_file, noip_start + 1, Len(noip_file))
IpEmitted == SubSeq(ip_file, ip_start + 1, Len(ip_file))

\* what a step appends to ip_addrs and to the noip file
NewIps == SubSeq(ip_addrs', Len(ip_addrs) + 1, Len(ip_addrs'))
NewNoip == SubSeq(noip_file', Len(noip_file) + 1, Len(noip_file'))
OnlyAppends ==
    /\ Len(ip_addrs') >= Len(ip_addrs)
    /\ SubSeq(ip_addrs', 1, Len(ip_addrs)) = ip_addrs
    /\ Len(noip_file') >= Len(noip_file)
    /\ SubSeq(noip_file', 1, Len(noip_file)) = noip_file

InLocalLoop == pc = "local" /\ idx <= Len(local_macs)
InRoutedLoop == pc = "routed" /\ idx <= Len(routed_macs)

DistinctKeys(d) == \A j, k \in 1..Len(d) : d[j].key = d[k].key => j = k

Count(s, x) == Cardinality({ j \in 1..Len(s) : s[j] = x })

\* a turn of a resolution loop for the key at idx of partition part: at least
\* one address and no line, or no address and the one line of that key
OneKindOfOutcome(part) ==
    /\ OnlyAppends
    /\ idx' = idx + 1
    /\ \/ Len(NewIps) >= 1 /\ NewNoip = <<>>
       \/ /\ NewIps = <<>>
          /\ NewNoip = << [mac |-> part[idx].key, vlanId |-> part[idx].val.vlanId,
                          interface |-> part[idx].val.interface] >>

\* C1. Resolution completeness: each turn of the loop over local_macs and of
\* the loop over routed_macs visits one key of the partition and emits for it
\* either one or more resolved addresses (appended to ip_addrs) and no line,
\* or exactly one line of the no-ip report and no address; a loop is left
\* only after its last key, a key occurs once in its partition, and no other
\* step of the script emits an outcome.
C1_ResolutionCompleteness ==
    [][ /\ InLocalLoop => OneKindOfOutcome(local_macs)
        /\ InRoutedLoop => OneKindOfOutcome(routed_macs)
        /\ (pc = "local" /\ pc' # "local") => idx > Len(local_macs)
        /\ (pc = "routed" /\ pc' # "routed") => idx > Len(routed_macs)
        /\ DistinctKeys(local_macs) /\ DistinctKeys(routed_macs)
        /\ (~ InLocalLoop /\ ~ InRoutedLoop /\ pc' # "start" /\ pc # "start")
              => (ip_addrs' = ip_addrs /\ noip_file' = noip_file) ]_vars

\* both partitions were walked, with a resolved and an unresolved key
C1_Witness ==
    /\ pc = "done"
    /\ Len(local_macs) >= 1 /\ Len(routed_macs) >= 1
    /\ Len(ip_addrs) >= 2 /\ Len(NoipEmitted) >= 1

\* the rows the router returned for the VLANs asked so far
RouterRowsSeen ==
    UNION { Range(DynamicRows(router_resp[queried[j]].vrfs)) : j \in 1..Len(queried) }

\* C8. Cross-partition lookups never occur: an address appended to ip_addrs
\* for a key of local_macs is a row of the leaf's ARP table with that MAC,
\* and one appended for a key of routed_macs is a row the router returned
\* with that MAC; a key of routed_macs with no router row gets its no-ip
\* line whatever the leaf's ARP table holds, and a key of local_macs with no
\* leaf row gets its line whatever the router holds.
C8_NoCrossPartitionLookup ==
    [][ /\ InLocalLoop =>
              /\ \A j \in 1..Len(NewIps) :
                    Neighbor(NewIps[j], local_macs[idx].key) \in Range(leaf_arp)
              /\ (\A r \in Range(leaf_arp) : r.hwAddress # local_macs[idx].key)
                    => (NewIps = <<>> /\ Len(NewNoip) = 1)
        /\ InRoutedLoop =>
              /\ \A j \in 1..Len(NewIps) :
                    Neighbor(NewIps[j], routed_macs[idx].key) \in RouterRowsSeen
              /\ (\A r \in RouterRowsSeen : r.hwAddress # routed_macs[idx].key)
                    => (NewIps = <<>> /\ Len(NewNoip) = 1) ]_vars

\* a routed MAC the leaf has an ARP row for and the router has none for was
\* reported as unresolved, and a local MAC the router has a row for and the
\* leaf has none for was too
C8_Witness ==
    /\ pc = "done"
    /\ \E j \in 1..Len(routed_macs) :
          /\ routed_macs[j].key \in DictValues(arp_dict)
          /\ routed_macs[j].key \notin DictValues(router_arp_dict)
          /\ NoIpLine(routed_macs[j].key, routed_macs[j].val) \in Range(NoipEmitted)
    /\ \E j \in 1..Len(local_macs) :
          /\ local_macs[j].key \in DictValues(router_arp_dict)
          /\ local_macs[j].key \notin DictValues(arp_dict)
          /\ NoIpLine(local_macs[j].key, local_macs[j].val) \in Range(NoipEmitted)

Ascending(lines) ==
    \A j, k \in 1..Len(lines) : j < k => IPv4Key(lines[j].ip) <= IPv4Key(lines[k].ip)

\* C5. Name Resolution Stage: when the report is written, it has received one
\* line per element of ip_addrs (each address as often as it occurs there),
\* in ascending order of the addresses' numeric value; the line of an address
\* carries its name when the resolver gives one and the unresolved marker
\* when it fails, and while the report is being written the lines so far are
\* those of the first addresses in that order.
C5_NameResolutionStage ==
    /\ pc \in {"report", "done"} =>
          /\ Len(IpEmitted) = (IF pc = "done" THEN Len(ip_addrs) ELSE idx - 1)
          /\ Ascending(IpEmitted)
          /\ \A j \in 1..Len(IpEmitted) :
                /\ IpEmitted[j].ip = sorted_ips[j]
                /\ IpEmitted[j].named = (dns[IpEmitted[j].ip] # NoName)
                /\ IpEmitted[j].named => IpEmitted[j].name = dns[IpEmitted[j].ip]
    /\ pc = "done" =>
          \A ip \in Ips : Count([j \in 1..Len(IpEmitted) |-> IpEmitted[j].ip], ip)
                             = Count(ip_addrs, ip)

\* three addresses collected out of order, one of them twice, the resolver
\* failing on the first line and answering on the last
C5_Witness ==
    /\ pc = "done"
    /\ ip_addrs = <<Ip10, Ip2, Ip2>>
    /\ Len(IpEmitted) = 3
    /\ ~ IpEmitted[1].named /\ IpEmitted[3].named

\* C9. Idempotence: when a run after the first ends, against the same
\* snapshots and the same resolver, the lines it appended to the no-ip file
\* and to the ip file are, in content and order, the lines every earlier run
\* appended to the same file.
C9_Idempotence ==
    (Ended /\ run >= 2) =>
        /\ Len(noip_file) = run * Len(NoipEmitted)
        /\ \A j \in 1..Len(noip_file) :
              noip_file[j] = NoipEmitted[((j - 1) % Len(NoipEmitted)) + 1]
        /\ Len(ip_file) = run * Len(IpEmitted)
        /\ \A j \in 1..Len(ip_file) :
              ip_file[j] = IpEmitted[((j - 1) % Len(IpEmitted)) + 1]

\* a second run ended having written to both files
C9_Witness ==
    /\ run = 2 /\ pc = "done"
    /\ Len(NoipEmitted) >= 1 /\ Len(IpEmitted) >= 2

----------------------------------------------------------------------------
(* The partitions *)

\* the Locality mapping covers the VLANs of the leaf's VLAN database other
\* than 1, 4093 and 4094
InLocality(vlanId) ==
    /\ vlanId \notin {1, 4093, 4094}
    /\ Member(Str(vlanId), show_vlans)

\* the VLAN has an SVI on the leaf whose line protocol is up
SviUp(vlanId) ==
    Member([key |-> VlanName(Str(vlanId)), val |-> "up"], interfaces)

\* the row's own record is what the partition holds under the row's MAC
Placed(row, part) ==
    \E k \in 1..Len(part) :
        /\ part[k].key = FormatMac(row.macAddress)
        /\ part[k].val = [interface |-> row.interface, vlanId |-> row.vlanId]

Excluded(row) ==
    \/ Contains(row.interface, <<"V", "x">>)
    \/ Contains(row.interface, <<"R", "o">>)
    \/ Contains(row.entryType, <<"s", "t">>)

\* every filtered row is on a VLAN of the Locality mapping
AllRowsInLocality == \A j \in 1..Len(macadds) : InLocality(macadds[j].vlanId)

\* the original statement of C2: every filtered row whose VLAN is in the
\* Locality mapping is held by exactly one of the two partitions.  It is
\* stated for the tables all of whose filtered rows are on such VLANs, where
\* no row of another VLAN takes part.
C2_EveryRowInExactlyOnePartition ==
    (Classified /\ AllRowsInLocality) =>
        \A j \in 1..Len(macadds) :
            InLocality(macadds[j].vlanId) =>
                (Placed(macadds[j], local_macs) # Placed(macadds[j], routed_macs))

\* the side of the split a row of that VLAN goes to, in the Locality mapping
\* or not: local when the VLAN has an up SVI other than Vlan4093 and Vlan4094
LocalSide(vlanId) == SviUp(vlanId) /\ vlanId \notin {4093, 4094}

\* the filtered rows after row j that have its MAC and its side of the split
LaterTwins(j) ==
    { k \in (j + 1)..Len(macadds) :
        /\ macadds[k].macAddress = macadds[j].macAddress
        /\ LocalSide(macadds[k].vlanId) = LocalSide(macadds[j].vlanId) }

\* C2 as amended. For every filtered row whose VLAN is in the Locality
\* mapping: the row's MAC is a key of the partition of its VLAN (local_macs
\* when the VLAN's SVI is up, routed_macs otherwise), the row's record is
\* never held by the other partition, and the record held under its MAC in
\* its own partition is that of the last filtered row with that MAC on that
\* side (a row of any VLAN, in the Locality mapping or not, is on the local
\* side when its VLAN has an up SVI other than Vlan4093 and Vlan4094), so the
\* row itself is held exactly when the last such row has its VLAN and
\* interface.
C2_RowsPartitionedLastWins ==
    Classified =>
        \A j \in 1..Len(macadds) :
            InLocality(macadds[j].vlanId) =>
                LET up == SviUp(macadds[j].vlanId)
                    own == IF up THEN local_macs ELSE routed_macs
                    other == IF up THEN routed_macs ELSE local_macs
                    twins == LaterTwins(j)
                    last == IF twins = {} THEN j
                            ELSE CHOOSE k \in twins : \A m \in twins : m <= k
                IN /\ HasKey(own, FormatMac(macadds[j].macAddress))
                   /\ ~ Placed(macadds[j], other)
                   /\ Placed(macadds[last], own)
                   /\ Placed(macadds[j], own) <=>
                         /\ macadds[last].vlanId = macadds[j].vlanId
                         /\ macadds[last].interface = macadds[j].interface

\* two rows of one MAC on two locally routed VLANs: the first row is in
\* neither partition
C2_Witness ==
    /\ Classified
    /\ Len(macadds) = 2
    /\ macadds[1].macAddress = macadds[2].macAddress
    /\ macadds[1].vlanId # macadds[2].vlanId
    /\ InLocality(macadds[1].vlanId) /\ InLocality(macadds[2].vlanId)
    /\ SviUp(macadds[1].vlanId) /\ SviUp(macadds[2].vlanId)
    /\ ~ Placed(macadds[1], local_macs) /\ ~ Placed(macadds[1], routed_macs)
    /\ Placed(macadds[2], local_macs)

\* the record item of a partition is the record of one of the rows kept
FromKeptRow(item, kept) ==
    \E j \in kept :
        /\ FormatMac(show_macs[j].macAddress) = item.key
        /\ show_macs[j].interface = item.val.interface
        /\ show_macs[j].vlanId = item.val.vlanId

\* C3. Exclusion correctness: whatever the rows of the address table and
\* their order, every record held by local_macs or routed_macs is the record
\* of a row of the table whose interface name contains neither Vx nor Ro and
\* whose entry type does not contain st; the filtered list holds exactly the
\* rows of that kind, in the table's order.
C3_ExclusionCorrectness ==
    Classified =>
        LET kept == { j \in 1..Len(show_macs) : ~ Excluded(show_macs[j]) } IN
        /\ \A k \in 1..Len(local_macs) : FromKeptRow(local_macs[k], kept)
        /\ \A k \in 1..Len(routed_macs) : FromKeptRow(routed_macs[k], kept)
        /\ \A j \in 1..Len(macadds) : ~ Excluded(macadds[j])
        /\ Len(macadds) = Cardinality(kept)
        /\ \A j \in kept :
              macadds[Cardinality({ k \in kept : k <= j })] = show_macs[j]

\* a table of an excluded row and an end host's row, in either order: the
\* host is in a partition and nothing of the excluded row is
C3_Witness ==
    /\ Classified
    /\ Len(show_macs) = 2
    /\ \E j, k \in 1..2 :
          /\ Excluded(show_macs[j]) /\ ~ Excluded(show_macs[k])
          /\ show_macs[j].macAddress # show_macs[k].macAddress
          /\ ~ HasKey(local_macs, FormatMac(show_macs[j].macAddress))
          /\ ~ HasKey(routed_macs, FormatMac(show_macs[j].macAddress))
          /\ Placed(show_macs[k], local_macs) \/ Placed(show_macs[k], routed_macs)

\* the original statement of C7: every record of a partition has a VLAN of
\* the Locality mapping; a filtered row of any other VLAN is in neither
C7_PartitionsWithinLocality ==
    Classified =>
        /\ \A k \in 1..Len(local_macs) : InLocality(local_macs[k].val.vlanId)
        /\ \A k \in 1..Len(routed_macs) : InLocality(routed_macs[k].val.vlanId)
        /\ \A j \in 1..Len(macadds) :
              ~ InLocality(macadds[j].vlanId) =>
                  (~ Placed(macadds[j], local_macs) /\ ~ Placed(macadds[j], routed_macs))

\* the original statement of C6: with two or more remote VLANs to ask about,
\* a router query that fails stops neither the queries of the other remote
\* VLANs nor the run, and adds nothing to the router's ARP index
C6_PartialResultTolerance ==
    (Len(router_vlans) >= 2 /\ \E j \in 1..Len(queried) : router_resp[queried[j]].raises) =>
        /\ pc # "crashed"
        /\ Ended => queried = router_vlans
        /\ \A j \in 1..Len(router_arp_dict) :
              Neighbor(router_arp_dict[j].key, router_arp_dict[j].val) \in RouterRowsSeen

\* the MAC of a partition has its outcome: its one line in the no-ip report
\* and no address of its own, or an address of its own and no line
HasOutcome(part, index, k) ==
    LET line == NoIpLine(part[k].key, part[k].val)
        resolved == \E j \in 1..Len(ip_addrs) :
                        HasKey(index, ip_addrs[j]) /\ Lookup(index, ip_addrs[j]) = part[k].key
    IN \/ Count(NoipEmitted, line) = 1 /\ ~ resolved
       \/ Count(NoipEmitted, line) = 0 /\ resolved

EveryOutcomeRecorded ==
    /\ \A k \in 1..Len(local_macs) : HasOutcome(local_macs, arp_dict, k)
    /\ \A k \in 1..Len(routed_macs) : HasOutcome(routed_macs, router_arp_dict, k)
    /\ \A ip \in Ips :
          Count([j \in 1..Len(IpEmitted) |-> IpEmitted[j].ip], ip) = Count(ip_addrs, ip)

\* the original statement of C4: when a run has ended, every MAC of a
\* partition and every resolved address has its one record in a report.  It
\* is stated for the tables all of whose filtered rows are on VLANs of the
\* Locality mapping.
C4_NoOutcomeDropped == (Ended /\ AllRowsInLocality) => EveryOutcomeRecorded

\* the original statement of C10: the VLANs the router is asked about are
\* exactly the VLANs of the records of routed_macs, each asked once.  It is
\* stated for the tables all of whose filtered rows are on VLANs of the
\* Locality mapping.
C10_QueriesAreRoutedMacsVlans ==
    (pc \in {"routed", "report", "done"} /\ AllRowsInLocality) =>
        /\ Range(queried) = { Str(routed_macs[k].val.vlanId) : k \in 1..Len(routed_macs) }
        /\ \A j, k \in 1..Len(queried) : queried[j] = queried[k] => j = k

\* the VLANs of the database, in its order, that are in the Locality mapping
\* and have no SVI that is up
RemoteVlansOfDatabase ==
    SelectSeq(show_vlans,
              LAMBDA v : /\ v # <<"1">>
                         /\ v # <<"4", "0", "9", "3">>
                         /\ v # <<"4", "0", "9", "4">>
                         /\ ~ Member([key |-> VlanName(v), val |-> "up"], interfaces))

\* C10 as amended. The router is asked once about each VLAN of the leaf's
\* VLAN database that is neither 1, 4093 nor 4094 and has no SVI that is up,
\* in the database's order, whether or not a record of routed_macs is on
\* that VLAN: the VLANs asked so far are always the first of that list, and
\* they are the whole list once the loop over routed_macs is reached.  A VLAN
\* outside that list is never asked about, though records of routed_macs may
\* be on it.
C10_QueriesAreRouterVlans ==
    Classified =>
        LET remote == RemoteVlansOfDatabase IN
        /\ Len(queried) <= Len(remote)
        /\ queried = SubSeq(remote, 1, Len(queried))
        /\ pc \in {"routed", "report", "done"} => queried = remote
        /\ pc = "local" => queried = <<>>

\* a run that ended after asking about a VLAN no record of routed_macs is
\* on, and never asking about the VLAN of a record of routed_macs
C10_Witness ==
    /\ pc = "done"
    /\ \E v \in Range(queried) :
          \A k \in 1..Len(routed_macs) : Str(routed_macs[k].val.vlanId) # v
    /\ \E k \in 1..Len(routed_macs) :
          Str(routed_macs[k].val.vlanId) \notin Range(queried)
====
